---- MODULE Spec2Model ----
(***************************************************************************)
(* A model of python-imgcat: the container sniffer (get_image_shape), the  *)
(* size resolution of imgcat(), the iTerm2 and Kitty encoders and the tmux *)
(* passthrough framing they emit.                                          *)
(*                                                                         *)
(* Bytes are integers 0..255, a bytes object is a sequence of them, a str  *)
(* is a sequence of code points.  A Python value that may be None, an int, *)
(* a str or a bytes object is a record [t, n, s].                          *)
(***************************************************************************)
EXTENDS Integers, Sequences, FiniteSets, TLC

(***************************************************************************)
(* Bounds of the model.                                                    *)
(***************************************************************************)
\* Raw payloads of 1..MaxLen bytes (every base64 padding case from 3 on).
MaxLen == 3
\* Kitty payloads of up to MaxChunks chunks of base64 text.
MaxChunks == 3
\* The largest terminal row count the terminal-size query answers.
MaxRows == 12

(***************************************************************************)
(* Python values.                                                          *)
(***************************************************************************)
PyNone == [t |-> "None", n |-> 0, s |-> <<>>]
PyInt(n) == [t |-> "int", n |-> n, s |-> <<>>]
PyStr(s) == [t |-> "str", n |-> 0, s |-> s]
PyBytes(s) == [t |-> "bytes", n |-> 0, s |-> s]

\* Python truthiness: None, 0 and the empty str/bytes are false.
Truthy(v) ==
  CASE v.t = "None" -> FALSE
    [] v.t = "int" -> v.n # 0
    [] OTHER -> Len(v.s) > 0

Min(a, b) == IF a < b THEN a ELSE b
Max(a, b) == IF a > b THEN a ELSE b

(***************************************************************************)
(* bytes helpers: b * n, str(int), str.encode(), b.index, b.rindex,        *)
(* b.replace, a in b, startswith, endswith.                                *)
(***************************************************************************)
\* b * n for a bytes object b: n copies, none when n <= 0.
BytesTimes(b, n) ==
  IF n <= 0 \/ Len(b) = 0 THEN <<>>
  ELSE [i \in 1..(n * Len(b)) |-> b[((i - 1) % Len(b)) + 1]]

RECURSIVE DecNat(_)
DecNat(n) == IF n < 10 THEN <<48 + n>> ELSE DecNat(n \div 10) \o <<48 + (n % 10)>>

\* str(n) for an int n, as ASCII.
StrInt(n) == IF n < 0 THEN <<45>> \o DecNat(0 - n) ELSE DecNat(n)

\* UTF-8 of one code point.
Utf8Char(c) ==
  IF c < 128 THEN <<c>>
  ELSE IF c < 2048 THEN <<192 + (c \div 64), 128 + (c % 64)>>
  ELSE IF c < 65536
    THEN <<224 + (c \div 4096), 128 + ((c \div 64) % 64), 128 + (c % 64)>>
  ELSE <<240 + (c \div 262144), 128 + ((c \div 4096) % 64),
         128 + ((c \div 64) % 64), 128 + (c % 64)>>

RECURSIVE StrEncode(_)
\* s.encode() for a str s (UTF-8).
StrEncode(s) ==
  IF Len(s) = 0 THEN <<>> ELSE Utf8Char(Head(s)) \o StrEncode(Tail(s))

\* repr of a short bytes object of printable ASCII: b'...'
BytesRepr(s) == <<98, 39>> \o s \o <<39>>

\* str(v).encode() and '{}'.format(v).encode('ascii')
StrOf(v) ==
  CASE v.t = "None" -> <<78, 111, 110, 101>>            \* None
    [] v.t = "int" -> StrInt(v.n)
    [] v.t = "str" -> StrEncode(v.s)
    [] OTHER -> BytesRepr(v.s)

\* The positions at which pat occurs in s.
Occurrences(s, pat) ==
  {i \in 1..(Len(s) - Len(pat) + 1) :
     \A k \in 1..Len(pat) : s[i + k - 1] = pat[k]}

MinOf(S) == CHOOSE x \in S : \A y \in S : x <= y
MaxOf(S) == CHOOSE x \in S : \A y \in S : x >= y

\* pat in s
Contains(s, pat) == Occurrences(s, pat) # {}
\* s.index(pat), 1-based; 0 stands for ValueError.
Index(s, pat) == IF Contains(s, pat) THEN MinOf(Occurrences(s, pat)) ELSE 0
\* s.rindex(pat), 1-based; 0 stands for ValueError.
RIndex(s, pat) == IF Contains(s, pat) THEN MaxOf(Occurrences(s, pat)) ELSE 0

StartsWith(s, pat) == Len(s) >= Len(pat) /\ SubSeq(s, 1, Len(pat)) = pat
EndsWith(s, pat) ==
  Len(s) >= Len(pat) /\ SubSeq(s, Len(s) - Len(pat) + 1, Len(s)) = pat

RECURSIVE Replace(_, _, _)
\* s.replace(old, new): leftmost occurrences, not overlapping.
Replace(s, old, new) ==
  IF ~Contains(s, old) THEN s
  ELSE LET i == Index(s, old)
       IN SubSeq(s, 1, i - 1) \o new
          \o Replace(SubSeq(s, i + Len(old), Len(s)), old, new)

(***************************************************************************)
(* base64                                                                  *)
(***************************************************************************)
\* The base64 alphabet: A-Z a-z 0-9 + /
B64Char(v) ==
  IF v < 26 THEN 65 + v
  ELSE IF v < 52 THEN 97 + (v - 26)
  ELSE IF v < 62 THEN 48 + (v - 52)
  ELSE IF v = 62 THEN 43 ELSE 47

B64Pad == 61

\* base64.b64encode(s) / standard_b64encode(s): each 3 bytes give 4
\* characters, a last group of 1 or 2 bytes is padded with '='.
b64encode(s) ==
  LET n == Len(s)
      byte(k) == IF k <= n THEN s[k] ELSE 0
  IN [j \in 1..(4 * ((n + 2) \div 3)) |->
        LET g == (j - 1) \div 4
            p == (j - 1) % 4
            b0 == byte(3 * g + 1)
            b1 == byte(3 * g + 2)
            b2 == byte(3 * g + 3)
        IN CASE p = 0 -> B64Char(b0 \div 4)
             [] p = 1 -> B64Char(((b0 % 4) * 16) + (b1 \div 16))
             [] p = 2 -> IF 3 * g + 2 > n THEN B64Pad
                         ELSE B64Char(((b1 % 16) * 4) + (b2 \div 64))
             [] OTHER -> IF 3 * g + 3 > n THEN B64Pad ELSE B64Char(b2 % 64)]

(***************************************************************************)
(* imgcat.py: get_image_shape                                              *)
(***************************************************************************)
GIF87a == <<71, 73, 70, 56, 55, 97>>                      \* b'GIF87a'
GIF89a == <<71, 73, 70, 56, 57, 97>>                      \* b'GIF89a'
PNG_SIGNATURE == <<137, 80, 78, 71, 13, 10, 26, 10>>      \* b'\211PNG\r\n\032\n'
IHDR == <<73, 72, 68, 82>>                                \* b'IHDR'

\* buf[a:b] with 0-based a, b as in Python (clipped to the buffer).
Slice(buf, a, b) == SubSeq(buf, a + 1, Min(b, Len(buf)))

\* One little-endian signed 16-bit field ('h').
UnpackShortLE(b0, b1) ==
  LET u == b0 + 256 * b1 IN IF u >= 32768 THEN u - 65536 ELSE u

\* One big-endian unsigned 32-bit field ('L').
UnpackULongBE(b0, b1, b2, b3) == ((b0 * 256 + b1) * 256 + b2) * 256 + b3

\* struct.unpack(fmt, buffer): struct.error unless the buffer has exactly
\* the size fmt asks for.
StructUnpack(fmt, buffer) ==
  CASE fmt = "<hh" ->
         IF Len(buffer) # 4 THEN [error |-> TRUE, vals |-> <<>>]
         ELSE [error |-> FALSE,
               vals |-> <<UnpackShortLE(buffer[1], buffer[2]),
                          UnpackShortLE(buffer[3], buffer[4])>>]
    [] OTHER ->
         IF Len(buffer) # 8 THEN [error |-> TRUE, vals |-> <<>>]
         ELSE [error |-> FALSE,
               vals |-> <<UnpackULongBE(buffer[1], buffer[2], buffer[3], buffer[4]),
                          UnpackULongBE(buffer[5], buffer[6], buffer[7], buffer[8])>>]

\* The result of get_image_shape: an exception, or (width, height).
ShapeOf(w, h) == [exc |-> "none", w |-> w, h |-> h]
ShapeRaise(e) == [exc |-> e, w |-> PyNone, h |-> PyNone]

\* get_image_shape._unpack
_unpack(fmt, buffer, mode) ==
  LET r == StructUnpack(fmt, buffer)
  IN IF r.error THEN ShapeRaise("ValueError: Invalid " \o mode \o " file")
     ELSE ShapeOf(PyInt(r.vals[1]), PyInt(r.vals[2]))

\* What Pillow does with a buffer that is neither GIF nor PNG by the tests
\* above: it is not installed, it cannot identify the content, or it
\* reports a size.
PilMissing == [available |-> FALSE, identified |-> FALSE, w |-> 0, h |-> 0]
PilUnidentified == [available |-> TRUE, identified |-> FALSE, w |-> 0, h |-> 0]
PilSize(w, h) == [available |-> TRUE, identified |-> TRUE, w |-> w, h |-> h]

get_image_shape(buf, pil) ==
  LET L == Len(buf)
  IN IF L >= 10 /\ Slice(buf, 0, 6) \in {GIF87a, GIF89a}
       THEN _unpack("<hh", Slice(buf, 6, 10), "GIF")
     ELSE IF L >= 24 /\ StartsWith(buf, PNG_SIGNATURE) /\ Slice(buf, 12, 16) = IHDR
       THEN _unpack(">LL", Slice(buf, 16, 24), "PNG")
     ELSE IF L >= 16 /\ StartsWith(buf, PNG_SIGNATURE)
       THEN _unpack(">LL", Slice(buf, 8, 16), "PNG")
     ELSE IF ~pil.available THEN ShapeOf(PyNone, PyNone)
     ELSE IF pil.identified THEN ShapeOf(PyInt(pil.w), PyInt(pil.h))
     ELSE ShapeOf(PyNone, PyNone)

(***************************************************************************)
(* imgcat.py: to_content_buf                                               *)
(***************************************************************************)
\* A source object: its kind, the bytes it holds or encodes to (the PNG
\* that Pillow or matplotlib writes for an image object), and for an array
\* whether its shape is one of the accepted ones.
Source(kind, content, shape_ok) ==
  [kind |-> kind, content |-> content, shape_ok |-> shape_ok]

BufOf(b) == [exc |-> "none", buf |-> b]
BufRaise(e) == [exc |-> e, buf |-> <<>>]

to_content_buf(data) ==
  CASE data.kind \in {"bytes", "BufferedReader", "TextIOWrapper"} ->
         BufOf(data.content)
    [] data.kind \in {"ndarray", "__array__", "torch.Tensor", "EagerTensor"} ->
         IF data.shape_ok THEN BufOf(data.content)
         ELSE BufRaise("ValueError: Expected a 3D ndarray")
    [] data.kind \in {"PIL.Image", "Figure"} -> BufOf(data.content)
    [] OTHER -> BufRaise("TypeError: Unsupported type")

(***************************************************************************)
(* imgcat.py: get_tty_size                                                 *)
(***************************************************************************)
\* The terminal: /dev/tty cannot be opened (OSError), or stty answers.
NoTty == [ok |-> FALSE, rows |-> 0, columns |-> 0]
Tty(rows, columns) == [ok |-> TRUE, rows |-> rows, columns |-> columns]

get_tty_size(tty) ==
  IF tty.ok THEN [exc |-> "none", rows |-> tty.rows, columns |-> tty.columns]
  ELSE [exc |-> "OSError", rows |-> 0, columns |-> 0]

(***************************************************************************)
(* Output: what a call does to its sinks, in order.  An event is a write   *)
(* of some bytes or a flush, on fp (the sink passed to the call) or on     *)
(* sys.stdout.                                                             *)
(***************************************************************************)
Write(dst, data) == [dst |-> dst, op |-> "write", data |-> data]
Flush(dst) == [dst |-> dst, op |-> "flush", data |-> <<>>]

Returned(events) == [exc |-> "none", events |-> events]
Raised(e, events) == [exc |-> e, events |-> events]

(***************************************************************************)
(* iterm2.py                                                               *)
(***************************************************************************)
TMUX_WRAP_ST == <<27, 80, 116, 109, 117, 120, 59>>        \* b'\033Ptmux;'
TMUX_WRAP_ED == <<27, 92>>                                \* b'\033\\'
OSC == <<27, 93>>                                         \* b'\033]'
CSI == <<27, 91>>                                         \* b'\033['
ST == <<7>>                                               \* b'\a'
ESC == <<27>>                                             \* b'\033'
LF == <<10>>                                              \* b'\n'

\* 'TMUX' in os.environ and 'tmux' in os.environ['TMUX']
IsTmux(env) == env.TMUX.t # "None" /\ Contains(env.TMUX.s, <<116, 109, 117, 120>>)

\* The prologue with the cursor moved up before it is hidden.
Iterm2TmuxPrologue_UpBeforeHide(height) ==
  << Write("fp", BytesTimes(LF, height.n)),
     Write("fp", CSI \o StrOf(height) \o <<70>>),
     Write("fp", CSI \o <<63, 50, 53, 108>>),
     Write("fp", TMUX_WRAP_ST \o ESC) >>

\* The writes of iterm2._write_image before the file-transfer sequence.
Iterm2TmuxPrologue(height) ==
  << Write("fp", BytesTimes(LF, height.n)),
     Write("fp", CSI \o <<63, 50, 53, 108>>),                       \* ?25l
     Write("fp", CSI \o StrOf(height) \o <<70>>),                   \* F
     Write("fp", TMUX_WRAP_ST \o ESC) >>

\* ;size= with the length of the base64 text in place of the buffer's.
Iterm2SizeField_Base64Length(buf) ==
  <<59, 115, 105, 122, 101, 61>> \o StrInt(Len(b64encode(buf)))

\* ;size=, with the length of the buffer.
Iterm2SizeField(buf) ==
  <<59, 115, 105, 122, 101, 61>> \o StrInt(Len(buf))

\* The optional ;name= field.
Iterm2NameField(filename) ==
  IF Truthy(filename)
    THEN LET filename_bytes ==
               IF filename.t = "bytes" THEN filename.s ELSE StrEncode(filename.s)
         IN << Write("fp", <<59, 110, 97, 109, 101, 61>> \o b64encode(filename_bytes)) >>
  ELSE << >>

\* ;height= and the optional ;width= field.
Iterm2DimensionFields(width, height) ==
  << Write("fp", <<59, 104, 101, 105, 103, 104, 116, 61>> \o StrOf(height)) >>
  \o (IF Truthy(width)
        THEN << Write("fp", <<59, 119, 105, 100, 116, 104, 61>> \o StrOf(width)) >>
      ELSE << >>)

\* The optional ;preserveAspectRatio=0 field.
Iterm2AspectField(preserve_aspect_ratio) ==
  IF ~preserve_aspect_ratio
    THEN << Write("fp", <<59, 112, 114, 101, 115, 101, 114, 118, 101, 65, 115, 112,
                          101, 99, 116, 82, 97, 116, 105, 111, 61, 48>>) >>
  ELSE << >>

\* The epilogue that leaves the cursor hidden.
Iterm2Epilogue_NoShow(height, is_tmux) ==
  IF is_tmux
    THEN << Write("fp", TMUX_WRAP_ED),
            Write("fp", CSI \o StrOf(height) \o <<69>>) >>
  ELSE << Write("fp", LF) >>

\* The writes of iterm2._write_image after the file-transfer sequence.
Iterm2Epilogue(height, is_tmux) ==
  IF is_tmux
    THEN << Write("fp", TMUX_WRAP_ED),
            Write("fp", CSI \o StrOf(height) \o <<69>>),            \* E
            Write("fp", CSI \o <<63, 50, 53, 104>>) >>              \* ?25h
  ELSE << Write("fp", LF) >>

\* iterm2._write_image(buf, fp, filename, width, height, preserve_aspect_ratio)
iterm2_write_image(buf, filename, width, height, preserve_aspect_ratio, is_tmux) ==
  IF is_tmux /\ height.t # "int"
    THEN Raised("TypeError", << >>)       \* b'\n' * height
  ELSE Returned(
    (IF is_tmux THEN Iterm2TmuxPrologue(height) ELSE << >>)
    \o << Write("fp", OSC),
          Write("fp", <<49, 51, 51, 55, 59, 70, 105, 108, 101, 61, 105, 110,
                        108, 105, 110, 101, 61, 49>>),     \* 1337;File=inline=1
          Write("fp", Iterm2SizeField(buf)) >>
    \o Iterm2NameField(filename)
    \o Iterm2DimensionFields(width, height)
    \o Iterm2AspectField(preserve_aspect_ratio)
    \o << Write("fp", <<58>>),                             \* :
          Flush("fp"),
          Write("fp", b64encode(buf)),
          Write("fp", ST) >>
    \o Iterm2Epilogue(height, is_tmux)
    \o << Flush("fp") >>)

(***************************************************************************)
(* kitty.py                                                                *)
(***************************************************************************)
\* The size of a chunk of base64 text in write_chunked.
ChunkSize == 4096

\* An OrderedDict is a sequence of items; d[k] = v replaces the value of an
\* existing key in place and appends a new key.
Item(k, v) == [k |-> k, v |-> v]

DictSet(d, k, v) ==
  IF \E i \in 1..Len(d) : d[i].k = k
    THEN [i \in 1..Len(d) |-> IF d[i].k = k THEN Item(k, v) ELSE d[i]]
  ELSE Append(d, Item(k, v))

RECURSIVE JoinItems(_)
\* ','.join('{}={}'.format(k, v) for k, v in cmd.items()).encode('ascii')
JoinItems(d) ==
  IF Len(d) = 0 THEN << >>
  ELSE d[1].k \o <<61>> \o StrOf(d[1].v)
       \o (IF Len(d) > 1 THEN <<44>> \o JoinItems(Tail(d)) ELSE << >>)

\* serialize_gr_command without the passthrough end marker.
serialize_gr_command_NoWrapEnd(cmd, payload, is_tmux) ==
  (IF is_tmux THEN TMUX_WRAP_ST \o ESC ELSE << >>)
  \o <<27, 95, 71>>
  \o JoinItems(cmd)
  \o (IF Len(payload) > 0 THEN <<59>> \o payload ELSE << >>)
  \o (IF is_tmux THEN ESC ELSE << >>)
  \o <<27, 92>>

\* kitty.serialize_gr_command(cmd, payload)
serialize_gr_command(cmd, payload, is_tmux) ==
  (IF is_tmux THEN TMUX_WRAP_ST \o ESC ELSE << >>)
  \o <<27, 95, 71>>                                       \* b'\033_G'
  \o JoinItems(cmd)
  \o (IF Len(payload) > 0 THEN <<59>> \o payload ELSE << >>)
  \o (IF is_tmux THEN ESC ELSE << >>)
  \o <<27, 92>>                                           \* b'\033\\'
  \o (IF is_tmux THEN TMUX_WRAP_ED ELSE << >>)

RECURSIVE ChunkLoop(_, _, _)
\* The loop with the rest taken one byte late: data[:4096], data[4097:].
ChunkLoop_DropsByte(cmd, data, is_tmux) ==
  IF Len(data) = 0 THEN << >>
  ELSE LET chunk == Slice(data, 0, ChunkSize)
           rest == Slice(data, ChunkSize + 1, Len(data))
           m == IF Len(rest) > 0 THEN 1 ELSE 0
       IN << Write("stdout",
                   serialize_gr_command(DictSet(cmd, <<109>>, PyInt(m)), chunk, is_tmux)),
             Flush("stdout") >>
          \o ChunkLoop(<< >>, rest, is_tmux)

\* The loop of write_chunked over the base64 text still to send.
ChunkLoop(cmd, data, is_tmux) ==
  IF Len(data) = 0 THEN << >>
  ELSE LET chunk == Slice(data, 0, ChunkSize)
           rest == Slice(data, ChunkSize, Len(data))
           m == IF Len(rest) > 0 THEN 1 ELSE 0
       IN << Write("stdout",
                   serialize_gr_command(DictSet(cmd, <<109>>, PyInt(m)), chunk, is_tmux)),
             Flush("stdout") >>
          \o ChunkLoop(<< >>, rest, is_tmux)

\* kitty.write_chunked(cmd, data)
write_chunked(cmd, data, is_tmux) == ChunkLoop(cmd, b64encode(data), is_tmux)

\* The control data of the first chunk.
KittyCmd(height, is_tmux) ==
  << Item(<<97>>, PyStr(<<84>>)),                          \* a=T
     Item(<<102>>, PyInt(100)),                            \* f=100
     Item(<<114>>, height),                                \* r=height
     Item(<<67>>, PyInt(IF is_tmux THEN 1 ELSE 0)),        \* C=int(is_tmux)
     Item(<<88>>, PyInt(10)),                              \* X=10
     Item(<<89>>, PyInt(10)) >>                            \* Y=10

\* kitty._write_image(buf, fp, height)
kitty_write_image(buf, height, is_tmux) ==
  IF is_tmux /\ height.t # "int"
    THEN Raised("TypeError", << >>)       \* b'\n' * height
  ELSE Returned(
    (IF is_tmux
       THEN << Write("fp", BytesTimes(LF, height.n)),
               Write("fp", CSI \o <<63, 50, 53, 108>>),             \* ?25l
               Write("fp", CSI \o StrOf(height) \o <<70>>),         \* F
               Flush("fp") >>
     ELSE << >>)
    \o write_chunked(KittyCmd(height, is_tmux), buf, is_tmux)
    \o (IF is_tmux
          THEN << Write("fp", CSI \o StrOf(height) \o <<69>>),      \* E
                  Write("fp", CSI \o <<63, 50, 53, 104>>),          \* ?25h
                  Flush("fp") >>
        ELSE << >>)
    \o << Write("fp", LF), Flush("fp") >>)

(***************************************************************************)
(* imgcat.py: imgcat                                                       *)
(***************************************************************************)
V05 == PyStr(<<118, 48, 46, 53>>)                          \* 'v0.5'
ORIGINAL == PyStr(<<111, 114, 105, 103, 105, 110, 97, 108>>)   \* 'original'
AUTO == PyStr(<<97, 117, 116, 111>>)                       \* 'auto'

\* f'{n}px'
Px(n) == PyStr(StrInt(n) \o <<112, 120>>)

\* a // b of Python (the floor of the quotient), b # 0.
FloorDiv(a, b) ==
  IF b > 0 THEN a \div b ELSE (0 - a) \div (0 - b)

\* What imgcat() has decided when it reaches the encoder, or the exception
\* that ended it before: the buffer, the sniffed shape (when it sniffed),
\* the terminal rows (when it asked) and the width and height it passes on.
Resolved(exc, buf, sniffed, shape, tty_rows, width, height) ==
  [exc |-> exc, buf |-> buf, sniffed |-> sniffed, shape |-> shape,
   tty_rows |-> tty_rows, width |-> width, height |-> height]

\* The legacy height with the quotient rounded down.
LegacyHeight_RoundsDown(im_height, pixels_per_line, tty) ==
  IF Truthy(im_height)
    THEN LET height == FloorDiv(im_height.n, pixels_per_line)
             size == get_tty_size(tty)
         IN IF size.exc = "none"
              THEN PyInt(Max(1, Min(height, size.rows - 9)))
            ELSE PyInt(height)
  ELSE PyInt(10)

\* The legacy ('v0.5') height of imgcat(): lines 221-235.
LegacyHeight(im_height, pixels_per_line, tty) ==
  IF Truthy(im_height)
    THEN LET height == FloorDiv(im_height.n + (pixels_per_line - 1), pixels_per_line)
             size == get_tty_size(tty)
         IN IF size.exc = "none"
              THEN PyInt(Max(1, Min(height, size.rows - 9)))
            ELSE PyInt(height)
  ELSE PyInt(10)

\* The width test left out.
WidthCheck_Skipped(width) == "none"

\* Lines 241-242: the exception a width of 'v0.5' ends imgcat() with.
WidthCheck(width) ==
  IF width = V05 THEN "ValueError: There is no legacy fallback for width"
  ELSE "none"

\* imgcat() up to the call of the encoder: lines 214-242.  debug is
\* __debug__: the assert statement is compiled out under python -O.
ResolveSize(data, width, height, pixels_per_line, tty, pil, debug) ==
  LET c == to_content_buf(data)
      buf == c.buf
      noshape == ShapeOf(PyNone, PyNone)
  IN IF c.exc # "none"
       THEN Resolved(c.exc, buf, FALSE, noshape, PyNone, width, height)
     ELSE IF Len(buf) = 0
       THEN Resolved("ValueError: Empty buffer", buf, FALSE, noshape, PyNone,
                     width, height)
     ELSE IF height = V05 \/ ORIGINAL \in {height, width}
       THEN LET shape == get_image_shape(buf, pil)
                im_width == shape.w
                im_height == shape.h
                asked == height = V05 /\ Truthy(im_height)
                rows == IF asked /\ tty.ok THEN PyInt(tty.rows) ELSE PyNone
                h2 == IF height = V05
                        THEN LegacyHeight(im_height, pixels_per_line, tty)
                      ELSE IF height = ORIGINAL
                        THEN (IF Truthy(im_height) THEN Px(im_height.n) ELSE AUTO)
                      ELSE height
                w2 == IF width = ORIGINAL
                        THEN (IF Truthy(im_width) THEN Px(im_width.n) ELSE AUTO)
                      ELSE width
            IN IF shape.exc # "none"
                 THEN Resolved(shape.exc, buf, TRUE, shape, PyNone, width, height)
               ELSE IF asked /\ debug /\ ~(pixels_per_line > 0)
                 THEN Resolved("AssertionError", buf, TRUE, shape, PyNone,
                               width, height)
               ELSE IF asked /\ pixels_per_line = 0
                 THEN Resolved("ZeroDivisionError", buf, TRUE, shape, PyNone,
                               width, height)
               ELSE Resolved(WidthCheck(w2), buf, TRUE, shape, rows, w2, h2)
     ELSE Resolved(WidthCheck(width), buf, FALSE, noshape, PyNone, width, height)

\* imgcat() with the start of the sequence written before the size is
\* resolved.
imgcat_WritesBeforeResolving(data, filename, width, height, preserve_aspect_ratio, pixels_per_line, tty, pil, debug, is_tmux) ==
  LET r == ResolveSize(data, width, height, pixels_per_line, tty, pil, debug)
  IN IF r.exc # "none" THEN [res |-> r, out |-> Raised(r.exc, << Write("fp", OSC) >>)]
     ELSE [res |-> r,
           out |-> iterm2_write_image(r.buf, filename, r.width, r.height,
                                      preserve_aspect_ratio, is_tmux)]

\* imgcat(data, filename, width, height, preserve_aspect_ratio,
\*        pixels_per_line, fp): the encoder is always the iTerm2 one.
imgcat(data, filename, width, height, preserve_aspect_ratio, pixels_per_line, tty, pil, debug, is_tmux) ==
  LET r == ResolveSize(data, width, height, pixels_per_line, tty, pil, debug)
  IN IF r.exc # "none" THEN [res |-> r, out |-> Raised(r.exc, << >>)]
     ELSE [res |-> r,
           out |-> iterm2_write_image(r.buf, filename, r.width, r.height,
                                      preserve_aspect_ratio, is_tmux)]

(***************************************************************************)
(* imgcat.py: parse_size                                                   *)
(***************************************************************************)
DEFAULT == PyStr(<<100, 101, 102, 97, 117, 108, 116>>)     \* 'default'

\* str.strip() as int() applies it: the white space at both ends goes.
IsSpace(c) == c \in {9, 10, 11, 12, 13, 32}
Strip(s) ==
  LET kept == {i \in 1..Len(s) : ~IsSpace(s[i])}
  IN IF kept = {} THEN << >> ELSE SubSeq(s, MinOf(kept), MaxOf(kept))

IsDigit(c) == c \in 48..57

\* The digits int() takes after the sign: one digit or more, single
\* underscores between digits allowed.
IsDigitString(d) ==
  /\ Len(d) > 0
  /\ IsDigit(d[1]) /\ IsDigit(d[Len(d)])
  /\ \A i \in 1..Len(d) : IsDigit(d[i]) \/ d[i] = 95
  /\ \A i \in 1..(Len(d) - 1) : ~(d[i] = 95 /\ d[i + 1] = 95)

RECURSIVE DigitsValue(_)
DigitsValue(d) ==
  IF Len(d) = 0 THEN 0
  ELSE LET c == d[Len(d)]
           front == DigitsValue(SubSeq(d, 1, Len(d) - 1))
       IN IF c = 95 THEN front ELSE front * 10 + (c - 48)

\* int(s) of a str of ASCII characters: the value, or ValueError.
IntOfStr(s) ==
  LET t == Strip(s)
      signed == Len(t) > 0 /\ t[1] \in {43, 45}
      d == IF signed THEN Tail(t) ELSE t
  IN IF IsDigitString(d)
       THEN [ok |-> TRUE, n |-> IF signed /\ t[1] = 45 THEN 0 - DigitsValue(d) ELSE DigitsValue(d)]
     ELSE [ok |-> FALSE, n |-> 0]

\* s[:stop] for stop <= 0: nothing when stop is 0 (-0 is 0), else all but
\* the last -stop characters.
SliceTo(s, stop) ==
  IF stop = 0 THEN << >>
  ELSE SubSeq(s, 1, Max(0, Len(s) + stop))

SizeReturn(v) == [exc |-> "none", value |-> v]
SizeRaise(e) == [exc |-> e, value |-> PyNone]

\* The suffixes of line 255, in the order the loop tries them.
Suffixes == << <<37>>, <<112, 120>>, << >> >>                \* '%', 'px', ''

\* parse_size(s): lines 250-257.
parse_size(s) ==
  IF PyStr(s) \in {V05, AUTO, ORIGINAL} THEN SizeReturn(PyStr(s))
  ELSE IF PyStr(s) = DEFAULT THEN SizeReturn(PyNone)
  ELSE LET matching == {i \in 1..Len(Suffixes) : EndsWith(s, Suffixes[i])}
           suffix == Suffixes[MinOf(matching)]
           n == IntOfStr(SliceTo(s, 0 - Len(suffix)))
       IN IF n.ok THEN SizeReturn(PyStr(StrInt(n.n) \o suffix))
          ELSE SizeRaise("ValueError")

(***************************************************************************)
(* The inputs the model draws from.                                        *)
(***************************************************************************)
\* n bytes that differ from one position to the next.
Pattern(n, seed) == [i \in 1..n |-> (seed + 83 * i) % 256]

SmallBufs == {Pattern(n, 172) : n \in 1..MaxLen}

\* Payloads whose base64 text ends on a chunk boundary, or one group after.
BigLens == {((3 * ChunkSize) \div 4) * k + d : k \in 1..(MaxChunks - 1), d \in {0, 1}}
BigBufs == {Pattern(n, 7) : n \in BigLens}

LE16(n) == <<n % 256, n \div 256>>
BE32(n) == <<n \div 16777216, (n \div 65536) % 256, (n \div 256) % 256, n % 256>>

\* A GIF header: magic, logical screen width and height, three more bytes.
Gif(magic, w, h) == magic \o LE16(w) \o LE16(h) \o <<128, 0, 0>>
\* A PNG header: signature, the IHDR chunk length and type, width, height.
Png(w, h) == PNG_SIGNATURE \o <<0, 0, 0, 13>> \o IHDR \o BE32(w) \o BE32(h)
               \o <<8, 6, 0, 0, 0>>
\* A PNG signature followed directly by two 32-bit fields.
PngBare(w, h) == PNG_SIGNATURE \o BE32(w) \o BE32(h)

GifDims == {<<1, 1>>, <<3, 25>>, <<10, 240>>, <<100, 0>>, <<40000, 32768>>,
            <<65535, 65535>>}
PngDims == {<<1, 1>>, <<640, 480>>, <<16777217, 70000>>}

GifBufs == {Gif(GIF89a, d[1], d[2]) : d \in GifDims} \cup {Gif(GIF87a, 2, 48)}
PngBufs == {Png(d[1], d[2]) : d \in PngDims}
\* The magic matches and the buffer ends before the dimension fields do.
ShortGifBufs == {GIF87a, GIF89a \o <<1, 0>>, GIF89a \o <<1, 0, 1>>}
ShortPngBufs == {PNG_SIGNATURE, PNG_SIGNATURE \o <<0, 0, 0, 13>>,
                 PNG_SIGNATURE \o <<0, 0, 0, 13>> \o <<73, 72, 68>>}
\* Neither GIF nor PNG: b'0' * 32.
OtherBufs == {BytesTimes(<<48>>, 32)}

HeaderBufs == GifBufs \cup PngBufs \cup {PngBare(5, 48)} \cup ShortGifBufs
                \cup ShortPngBufs \cup OtherBufs

PilOutcomes == {PilMissing, PilUnidentified, PilSize(100, 50)}
TtyStates == {NoTty} \cup {Tty(r, 80) : r \in {5, MaxRows}}

FOO_PNG == <<102, 111, 111, 46, 112, 110, 103>>            \* foo.png
\* unicode_한글.png
UNICODE_PNG == <<117, 110, 105, 99, 111, 100, 101, 95, 54620, 44544, 46, 112, 110, 103>>

Filenames == {PyNone, PyStr(<< >>), PyStr(FOO_PNG), PyStr(UNICODE_PNG), PyBytes(FOO_PNG)}

\* What imgcat() is given: bytes of each kind of header, an empty buffer,
\* a file object, image objects and an object of no supported type.
Sources ==
  {Source("bytes", b, TRUE) :
     b \in {Gif(GIF89a, 3, 25), Gif(GIF89a, 10, 240), Gif(GIF89a, 100, 0),
            Gif(GIF89a, 40000, 32768), Png(640, 480), GIF89a \o <<1, 0>>,
            BytesTimes(<<48>>, 32), << >>}}
  \cup {Source("BufferedReader", Gif(GIF87a, 2, 48), TRUE),
        Source("ndarray", Png(32, 32), TRUE),
        Source("ndarray", << >>, FALSE),
        Source("dict", << >>, TRUE)}

\* What --width and --height are given on the command line: the tokens, a
\* number alone, with px and with %, with a sign, a space or an underscore,
\* and strings of no size at all.
SizeLiterals ==
  {V05.s, AUTO.s, ORIGINAL.s, DEFAULT.s,
   <<48>>, <<55>>, <<49, 48>>, <<49, 50, 48>>,                     \* 0 7 10 120
   <<49, 48, 112, 120>>, <<51, 50, 48, 112, 120>>,                 \* 10px 320px
   <<53, 48, 37>>, <<49, 48, 48, 37>>,                             \* 50% 100%
   <<45, 51, 112, 120>>, <<43, 53, 37>>, <<32, 55, 32, 37>>,       \* -3px +5% ' 7 %'
   <<49, 95, 48, 112, 120>>,                                       \* 1_0px
   <<112, 120>>, <<37>>, << >>, <<97, 98, 99>>,                    \* px % '' abc
   <<49, 46, 53, 112, 120>>, <<65, 117, 116, 111>>}                \* 1.5px Auto

Envs ==
  {[TMUX |-> t, TERM |-> m] :
     t \in {PyNone, PyStr(<<109, 111, 99, 107, 45, 116, 109, 117, 120, 45,
                           115, 101, 115, 115, 105, 111, 110>>)},  \* mock-tmux-session
     m \in {PyStr(<<120, 116, 101, 114, 109, 45, 50, 53, 54, 99, 111, 108, 111, 114>>),
            PyStr(<<120, 116, 101, 114, 109, 45, 107, 105, 116, 116, 121>>)}}
            \* xterm-256color, xterm-kitty

(***************************************************************************)
(* The state: the environment, the log of what the call made has done to   *)
(* the sinks (sys.stdout.buffer and a BytesIO a caller may pass as fp), in *)
(* the order it did it, the call and what came of it.                      *)
(***************************************************************************)
VARIABLES environ, log, call, ret

vars == <<environ, log, call, ret>>

NoShape == ShapeOf(PyNone, PyNone)
NoRes == Resolved("none", << >>, FALSE, NoShape, PyNone, PyNone, PyNone)

Call(op, data, filename, width, height, preserve_aspect_ratio, pixels_per_line, fp) ==
  [op |-> op, data |-> data, filename |-> filename, width |-> width,
   height |-> height, preserve_aspect_ratio |-> preserve_aspect_ratio,
   pixels_per_line |-> pixels_per_line, fp |-> fp]

NoCall == Call("none", Source("bytes", << >>, TRUE), PyNone, PyNone, PyNone, TRUE, 24, "stdout")
NoRet == [exc |-> "none", res |-> NoRes, shape |-> NoShape, value |-> PyNone]

\* The events as the sinks see them: a write or flush on fp goes to the
\* sink that fp is, one on sys.stdout to sys.stdout.
Emit(events, fp) ==
  [i \in 1..Len(events) |->
     [sink |-> IF events[i].dst = "fp" THEN fp ELSE "stdout",
      op |-> events[i].op, data |-> events[i].data]]

RECURSIVE Bytes(_)
\* The bytes of the writes among the events, in order.
Bytes(events) ==
  IF Len(events) = 0 THEN << >>
  ELSE (IF Head(events).op = "write" THEN Head(events).data ELSE << >>)
       \o Bytes(Tail(events))

\* What a sink holds.
OnSink(name) == SelectSeq(log, LAMBDA e : e.sink = name)
SinkBytes(name) == Bytes(OnSink(name))

Init ==
  /\ environ \in Envs
  /\ log = << >>
  /\ call = NoCall
  /\ ret = NoRet

\* imgcat(data, filename=..., width=..., height=..., ...): as the tests call
\* it, with the defaults on sys.stdout, or with a filename, the aspect ratio
\* not preserved and a BytesIO as fp.  The terminal, Pillow and __debug__
\* are drawn only where imgcat() consults them.
Imgcat ==
  /\ call.op = "none"
  /\ \E data \in Sources, width \in {PyNone, ORIGINAL, V05, PyInt(10)},
        height \in {PyNone, V05, ORIGINAL, PyInt(12), AUTO},
        named \in BOOLEAN :
     \E pixels_per_line \in IF height = V05 THEN {24, 7, 0, -2} ELSE {24, 0} :
     \E tty \in IF height = V05 THEN TtyStates ELSE {NoTty},
        pil \in IF height = V05 \/ ORIGINAL \in {height, width}
                 THEN PilOutcomes ELSE {PilMissing},
        debug \in IF height = V05 /\ pixels_per_line <= 0 THEN BOOLEAN ELSE {TRUE} :
       LET filename == IF named THEN PyStr(FOO_PNG) ELSE PyNone
           fp == IF named THEN "bytesio" ELSE "stdout"
           r == imgcat(data, filename, width, height, ~named, pixels_per_line,
                       tty, pil, debug, IsTmux(environ))
       IN /\ call' = Call("imgcat", data, filename, width, height, ~named,
                          pixels_per_line, fp)
          /\ ret' = [exc |-> r.out.exc, res |-> r.res, shape |-> r.res.shape, value |-> PyNone]
          /\ log' = log \o Emit(r.out.events, fp)
  /\ UNCHANGED environ

\* iterm2._write_image(buf, fp, filename, width, height, preserve_aspect_ratio)
Iterm2WriteImage ==
  /\ call.op = "none"
  /\ \E buf \in SmallBufs, filename \in Filenames,
        width \in {PyNone, PyInt(0), PyInt(10), PyStr(<<53, 48, 37>>)},     \* 50%
        height \in {PyNone, PyInt(0), PyInt(2), PyInt(12), AUTO},
        preserve_aspect_ratio \in BOOLEAN, fp \in {"stdout", "bytesio"} :
       LET r == iterm2_write_image(buf, filename, width, height,
                                   preserve_aspect_ratio, IsTmux(environ))
       IN /\ call' = Call("iterm2", Source("bytes", buf, TRUE), filename, width,
                          height, preserve_aspect_ratio, 24, fp)
          /\ ret' = [exc |-> r.exc, res |-> NoRes, shape |-> NoShape, value |-> PyNone]
          /\ log' = log \o Emit(r.events, fp)
  /\ UNCHANGED environ

\* kitty._write_image(buf, fp, height): every height with the small
\* buffers, a height of 2 with those of more than one chunk.
KittyWriteImage ==
  /\ call.op = "none"
  /\ \E buf \in SmallBufs \cup BigBufs, fp \in {"stdout", "bytesio"} :
     \E height \in IF buf \in SmallBufs THEN {PyNone, PyInt(2), PyInt(12)}
                   ELSE {PyInt(2)} :
       LET r == kitty_write_image(buf, height, IsTmux(environ))
       IN /\ call' = Call("kitty", Source("bytes", buf, TRUE), PyNone, PyNone,
                          height, TRUE, 24, fp)
          /\ ret' = [exc |-> r.exc, res |-> NoRes, shape |-> NoShape, value |-> PyNone]
          /\ log' = log \o Emit(r.events, fp)
  /\ UNCHANGED environ

\* get_image_shape(buf)
GetImageShape ==
  /\ call.op = "none"
  /\ \E buf \in HeaderBufs, pil \in PilOutcomes :
       LET r == get_image_shape(buf, pil)
       IN /\ call' = Call("get_image_shape", Source("bytes", buf, TRUE), PyNone,
                          PyNone, PyNone, TRUE, 24, "stdout")
          /\ ret' = [exc |-> r.exc, res |-> NoRes, shape |-> r, value |-> PyNone]
  /\ UNCHANGED <<environ, log>>

\* parse_size(s), as argparse calls it on --width and --height.
ParseSize ==
  /\ call.op = "none"
  /\ \E s \in SizeLiterals :
       LET r == parse_size(s)
       IN /\ call' = Call("parse_size", Source("str", s, TRUE), PyNone, PyNone,
                          PyNone, TRUE, 24, "stdout")
          /\ ret' = [exc |-> r.exc, res |-> NoRes, shape |-> NoShape, value |-> r.value]
  /\ UNCHANGED <<environ, log>>

\* The caller takes fresh sinks for the next call, as each capture of the
\* tests does.
NewSinks ==
  /\ call.op # "none"
  /\ log' = << >>
  /\ call' = NoCall
  /\ ret' = NoRet
  /\ UNCHANGED environ

Next ==
  Imgcat \/ Iterm2WriteImage \/ KittyWriteImage \/ GetImageShape \/ ParseSize \/ NewSinks

Spec == Init /\ [][Next]_vars

(***************************************************************************)
(* test_imgcat.py: what the tests do with the captured bytes.              *)
(***************************************************************************)
\* TestImgcat.tmux_unwrap_passthrough finds its markers in b.
CanUnwrap(b) == Contains(b, TMUX_WRAP_ST) /\ Contains(b, <<27, 92>>)

\* TestImgcat.tmux_unwrap_passthrough(b): from just after the first start
\* marker to the last ESC \, every doubled ESC made single.
tmux_unwrap_passthrough(b) ==
  LET st == Index(b, TMUX_WRAP_ST)
      ed == RIndex(b, <<27, 92>>)
  IN Replace(SubSeq(b, st + 7, ed - 1), <<27, 27>>, <<27>>)

(***************************************************************************)
(* Reading the state.                                                      *)
(***************************************************************************)
is_tmux == IsTmux(environ)

\* An encoder was called and returned.
Iterm2Returned == call.op \in {"iterm2", "imgcat"} /\ ret.exc = "none"
KittyReturned == call.op = "kitty" /\ ret.exc = "none"

\* The arguments the encoder was called with.
EncBuf == IF call.op = "imgcat" THEN ret.res.buf ELSE call.data.content
EncWidth == IF call.op = "imgcat" THEN ret.res.width ELSE call.width
EncHeight == IF call.op = "imgcat" THEN ret.res.height ELSE call.height

\* All the bytes the call wrote, in the order it wrote them, and those it
\* wrote to the sink it was given as fp.
Written == Bytes(log)
FpBytes == SinkBytes(call.fp)

\* base64 decoding: the value of a character of the alphabet ('=' as 0).
B64Value(c) ==
  IF c >= 65 /\ c <= 90 THEN c - 65
  ELSE IF c >= 97 /\ c <= 122 THEN c - 71
  ELSE IF c >= 48 /\ c <= 57 THEN c + 4
  ELSE IF c = 43 THEN 62
  ELSE IF c = 47 THEN 63 ELSE 0

\* The bytes a base64 text (whole groups of 4) stands for.
B64Decode(t) ==
  LET n == Len(t)
      pads == IF n = 0 THEN 0
              ELSE IF t[n] # 61 THEN 0
              ELSE IF t[n - 1] # 61 THEN 1 ELSE 2
  IN [k \in 1..(3 * (n \div 4) - pads) |->
        LET g == (k - 1) \div 3
            q == (k - 1) % 3
            c0 == B64Value(t[4 * g + 1])
            c1 == B64Value(t[4 * g + 2])
            c2 == B64Value(t[4 * g + 3])
            c3 == B64Value(t[4 * g + 4])
        IN CASE q = 0 -> c0 * 4 + (c1 \div 16)
             [] q = 1 -> (c1 % 16) * 16 + (c2 \div 4)
             [] OTHER -> (c2 % 4) * 64 + c3]

(***************************************************************************)
(* C1.  The iTerm2 encoder emits exactly one sequence, its fields in the   *)
(* order ESC ] 1337;File=inline=1 ;size=N [;name=base64(UTF-8 filename)]   *)
(* ;height=H [;width=W] [;preserveAspectRatio=0] : base64(buf) BEL; N is   *)
(* the length of buf, not of its base64 text; name is there exactly when a *)
(* filename (a non-empty str or bytes) is given, preserveAspectRatio=0     *)
(* exactly when the aspect ratio is not preserved; with foo.png, width 10, *)
(* height 12 and no preservation the output holds height=12; width=10;     *)
(* name=Zm9vLnBuZw==; and preserveAspectRatio=0.                           *)
(***************************************************************************)
\* The sequence in the bytes of fp: from the one ESC ] to the BEL.
Iterm2Sequence == SubSeq(FpBytes, Index(FpBytes, OSC), Index(FpBytes, ST))

\* The text between a field's key and the next ; or :
FieldValue(seq, key) ==
  LET from == Index(seq, key) + Len(key)
      stop == MinOf({i \in from..Len(seq) : seq[i] \in {58, 59}})
  IN SubSeq(seq, from, stop - 1)

C1_Iterm2Sequence ==
  Iterm2Returned =>
    LET seq == Iterm2Sequence
        named == Truthy(call.filename)
        name_bytes == IF call.filename.t = "bytes" THEN call.filename.s
                      ELSE StrEncode(call.filename.s)
        payload == SubSeq(seq, Index(seq, <<58>>) + 1, Len(seq) - 1)
        head == SubSeq(seq, 1, Index(seq, <<58>>))
        expected_head ==
          <<27, 93>>
          \o <<49, 51, 51, 55, 59, 70, 105, 108, 101, 61, 105, 110, 108, 105, 110, 101, 61, 49>>
          \o <<59, 115, 105, 122, 101, 61>> \o StrInt(Len(EncBuf))
          \o (IF named THEN <<59, 110, 97, 109, 101, 61>> \o FieldValue(seq, <<59, 110, 97, 109, 101, 61>>)
              ELSE << >>)
          \o <<59, 104, 101, 105, 103, 104, 116, 61>> \o StrOf(EncHeight)
          \o (IF Truthy(EncWidth) THEN <<59, 119, 105, 100, 116, 104, 61>> \o StrOf(EncWidth)
              ELSE << >>)
          \o (IF call.preserve_aspect_ratio THEN << >>
              ELSE <<59, 112, 114, 101, 115, 101, 114, 118, 101, 65, 115, 112, 101,
                     99, 116, 82, 97, 116, 105, 111, 61, 48>>)
          \o <<58>>
    IN /\ Cardinality(Occurrences(FpBytes, OSC)) = 1
       /\ Cardinality(Occurrences(FpBytes, ST)) = 1
       /\ head = expected_head
       /\ named => B64Decode(FieldValue(seq, <<59, 110, 97, 109, 101, 61>>)) = name_bytes
       /\ Len(payload) = 4 * ((Len(EncBuf) + 2) \div 3)
       /\ B64Decode(payload) = EncBuf
       /\ seq[Len(seq)] = 7
       /\ (/\ call.filename = PyStr(FOO_PNG)
           /\ EncWidth = PyInt(10)
           /\ EncHeight = PyInt(12)
           /\ ~call.preserve_aspect_ratio)
          => /\ Contains(seq, <<104, 101, 105, 103, 104, 116, 61, 49, 50, 59>>)
             /\ Contains(seq, <<119, 105, 100, 116, 104, 61, 49, 48, 59>>)
             /\ Contains(seq, <<110, 97, 109, 101, 61, 90, 109, 57, 118, 76, 110, 66,
                                117, 90, 119, 61, 61, 59>>)
             /\ Contains(seq, <<112, 114, 101, 115, 101, 114, 118, 101, 65, 115, 112,
                                101, 99, 116, 82, 97, 116, 105, 111, 61, 48>>)

\* The call of test_args_another has returned.
C1_Witness ==
  /\ Iterm2Returned
  /\ call.filename = PyStr(FOO_PNG)
  /\ EncWidth = PyInt(10)
  /\ EncHeight = PyInt(12)
  /\ ~call.preserve_aspect_ratio
  /\ Contains(FpBytes, <<110, 97, 109, 101, 61, 90, 109, 57, 118, 76, 110, 66,
                         117, 90, 119, 61, 61, 59>>)

(***************************************************************************)
(* C2.  With the default arguments (no width, no height) and a supported,  *)
(* non-empty input, plain or inside tmux, imgcat() returns without raising *)
(* and what it wrote (the tmux passthrough wrapper stripped inside tmux)   *)
(* starts with ESC ] 1337 ; and ends with BEL or BEL and a newline.        *)
(***************************************************************************)
\* TestImgcat._validate_iterm2
ValidIterm2(b) ==
  /\ StartsWith(b, <<27, 93, 49, 51, 51, 55, 59>>)
  /\ EndsWith(b, <<7, 10>>) \/ EndsWith(b, <<7>>)

\* TestImgcat.capture_and_validate strips the wrapper when TMUX is set.
Captured(b) ==
  IF Truthy(environ.TMUX)
    THEN (IF CanUnwrap(b) THEN tmux_unwrap_passthrough(b) ELSE << >>)
  ELSE b

SupportedInput ==
  /\ to_content_buf(call.data).exc = "none"
  /\ Len(to_content_buf(call.data).buf) > 0

C2_DefaultArgsValid ==
  (/\ call.op = "imgcat"
   /\ SupportedInput
   /\ call.width = PyNone
   /\ call.height = PyNone)
  => /\ ret.exc = "none"
     /\ ValidIterm2(Captured(FpBytes))

(***************************************************************************)
(* C3.  When TERM contains 'kitty', what imgcat() writes (the tmux wrapper *)
(* stripped inside tmux) is a Kitty graphics sequence: it begins with      *)
(* ESC _G a=T,f=100,m=0; or ESC _G a=T,f=100,m=1; and ends with ESC \.     *)
(***************************************************************************)
\* 'kitty' in os.getenv('TERM', '')
KittyProfile == Contains(environ.TERM.s, <<107, 105, 116, 116, 121>>)

\* TestImgcat._validate_kitty
ValidKitty(b) ==
  /\ \/ StartsWith(b, <<27, 95, 71, 97, 61, 84, 44, 102, 61, 49, 48, 48, 44, 109, 61, 48, 59>>)
     \/ StartsWith(b, <<27, 95, 71, 97, 61, 84, 44, 102, 61, 49, 48, 48, 44, 109, 61, 49, 59>>)
  /\ EndsWith(b, <<27, 92>>)

C3_KittyProfileWritesKitty ==
  (call.op = "imgcat" /\ KittyProfile /\ ret.exc = "none")
  => ValidKitty(Captured(FpBytes))

(***************************************************************************)
(* C4.  For a non-empty payload the Kitty encoder sends the base64 text of *)
(* the payload in consecutive chunks of 4096 bytes, only the last of which *)
(* may be shorter, and it is not empty; every chunk but the last carries   *)
(* m=1 and the last m=0; the chunks' payloads, concatenated in the order   *)
(* sent and decoded, are the buffer.                                       *)
(***************************************************************************)
\* The graphics commands written, in order.
KittyFrames == SelectSeq(log, LAMBDA e : e.op = "write" /\ Contains(e.data, <<27, 95, 71>>))

\* A command without its tmux wrapper, when it has one.
FrameInner(f) == IF StartsWith(f, TMUX_WRAP_ST) THEN tmux_unwrap_passthrough(f) ELSE f
\* ESC _G <control data> ; <payload> ESC \
FrameControl(f) ==
  LET g == FrameInner(f) IN SubSeq(g, 4, Index(g, <<59>>) - 1)
FramePayload(f) ==
  LET g == FrameInner(f) IN SubSeq(g, Index(g, <<59>>) + 1, Len(g) - 2)

RECURSIVE Payloads(_)
Payloads(frames) ==
  IF Len(frames) = 0 THEN << >>
  ELSE FramePayload(Head(frames).data) \o Payloads(Tail(frames))

C4_KittyChunks ==
  KittyReturned =>
    LET frames == KittyFrames
        n == Len(frames)
        text_len == 4 * ((Len(EncBuf) + 2) \div 3)
    IN /\ n = (text_len + 4095) \div 4096
       /\ \A i \in 1..n :
            LET f == frames[i].data
            IN /\ i < n => /\ Len(FramePayload(f)) = 4096
                           /\ EndsWith(FrameControl(f), <<109, 61, 49>>)
               /\ i = n => /\ Len(FramePayload(f)) \in 1..4096
                           /\ EndsWith(FrameControl(f), <<109, 61, 48>>)
       /\ B64Decode(Payloads(frames)) = EncBuf

\* A payload of three chunks has been sent.
C4_Witness ==
  /\ KittyReturned
  /\ Len(KittyFrames) = 3
  /\ Len(FramePayload(KittyFrames[3].data)) < 4096

(***************************************************************************)
(* C5.  Inside tmux both encoders' _write_image emit, in this order: rows  *)
(* newlines and no more, cursor-hide (CSI ?25l), cursor-up by rows         *)
(* (CSI rows F), the passthrough start marker, the inner sequence, the     *)
(* passthrough end marker, cursor-down by rows (CSI rows E), cursor-show   *)
(* (CSI ?25h); rows, a count of rows >= 0, is the height the inner         *)
(* sequence carries (height=H for iTerm2, r=rows for Kitty).  The order is *)
(* that of the call's writes; the Kitty encoder ends with one newline      *)
(* more.                                                                   *)
(***************************************************************************)
\* How many newlines b starts with.
LeadingNewlines(b) ==
  MinOf({i \in 0..Len(b) : i = Len(b) \/ b[i + 1] # 10})

C5_TmuxFraming ==
  (is_tmux /\ (Iterm2Returned \/ KittyReturned) /\ EncHeight.n >= 0) =>
    LET rows == EncHeight.n
        out == Written
        after_newlines == SubSeq(out, rows + 1, Len(out))
        hide_up == <<27, 91, 63, 50, 53, 108>> \o <<27, 91>> \o StrInt(rows) \o <<70>>
        down_show == <<27, 91>> \o StrInt(rows) \o <<69>> \o <<27, 91, 63, 50, 53, 104>>
        ed == RIndex(out, <<27, 92>>)
        inner == SubSeq(out, rows + Len(hide_up) + 1, ed + 1)
        rest == SubSeq(out, ed + 2, Len(out))
    IN /\ EncHeight.t = "int"
       /\ LeadingNewlines(out) = rows
       /\ StartsWith(after_newlines, hide_up)
       /\ StartsWith(inner, <<27, 80, 116, 109, 117, 120, 59>>)
       /\ EndsWith(inner, <<27, 92>>)
       /\ rest = down_show \o (IF call.op = "kitty" THEN <<10>> ELSE << >>)
       /\ IF call.op = "kitty"
            THEN Contains(inner, <<44, 114, 61>> \o StrInt(rows) \o <<44>>)              \* ,r=rows,
          ELSE \/ Contains(inner, <<59, 104, 101, 105, 103, 104, 116, 61>> \o StrInt(rows) \o <<59>>)
               \/ Contains(inner, <<59, 104, 101, 105, 103, 104, 116, 61>> \o StrInt(rows) \o <<58>>)

\* The Kitty encoder has sent two chunks or more inside tmux, with a BytesIO
\* as fp.
C5_Witness ==
  /\ is_tmux
  /\ KittyReturned
  /\ call.fp = "bytesio"
  /\ EncHeight = PyInt(2)
  /\ Len(KittyFrames) >= 2

(***************************************************************************)
(* C6.  Round trip of the tmux wrapper: the written bytes, cut from just   *)
(* after the first passthrough start marker to the last ESC \ and with     *)
(* every doubled ESC made single, are the sequence the same call writes    *)
(* outside tmux (without its trailing newline), for both encoders, Kitty   *)
(* output of more than one chunk included.                                 *)
(***************************************************************************)
\* What the same encoder call writes outside tmux.
OutsideEvents ==
  IF call.op = "kitty" THEN kitty_write_image(EncBuf, EncHeight, FALSE).events
  ELSE iterm2_write_image(EncBuf, call.filename, EncWidth, EncHeight,
                          call.preserve_aspect_ratio, FALSE).events

\* The sequence written outside tmux, without the trailing newline.
OutsideSequence ==
  LET b == Bytes(OutsideEvents) IN SubSeq(b, 1, Len(b) - 1)

\* The statement as claimed.
C6_RoundTripBothEncoders ==
  (is_tmux /\ (Iterm2Returned \/ KittyReturned)) =>
    /\ CanUnwrap(Written)
    /\ tmux_unwrap_passthrough(Written) = OutsideSequence

(***************************************************************************)
(* C6, amended.  For the iTerm2 encoder the round trip gives the sequence  *)
(* the same call writes outside tmux (without its trailing newline).  The  *)
(* Kitty encoder wraps each chunk in a passthrough of its own, and the     *)
(* round trip on each of them gives the chunk the same call writes outside *)
(* tmux, but for C=1 in place of C=0 in the control data of the first.     *)
(***************************************************************************)
OutsideFrames ==
  SelectSeq(OutsideEvents, LAMBDA e : e.op = "write" /\ Contains(e.data, <<27, 95, 71>>))

C6_RoundTrip ==
  /\ (is_tmux /\ Iterm2Returned) =>
       /\ CanUnwrap(Written)
       /\ tmux_unwrap_passthrough(Written) = OutsideSequence
  /\ (is_tmux /\ KittyReturned) =>
       LET inside == KittyFrames
           outside == OutsideFrames
       IN /\ Len(inside) = Len(outside)
          /\ \A i \in 1..Len(inside) :
               /\ StartsWith(inside[i].data, TMUX_WRAP_ST)
               /\ tmux_unwrap_passthrough(inside[i].data)
                    = Replace(outside[i].data, <<44, 67, 61, 48, 44>>,        \* ,C=0,
                              <<44, 67, 61, 49, 44>>)                         \* ,C=1,

\* The Kitty encoder has sent two chunks or more inside tmux.
C6_Witness ==
  /\ is_tmux
  /\ KittyReturned
  /\ Len(KittyFrames) >= 2
  /\ tmux_unwrap_passthrough(KittyFrames[1].data) # OutsideFrames[1].data

(***************************************************************************)
(* C7.  Legacy height (height = 'v0.5'), for a sniffed height H and a      *)
(* divisor P > 0: the height passed to the encoder is ceil(H/P) clamped to *)
(* [1, rows-9] when the terminal row count is obtainable (the lower end    *)
(* wins when rows-9 < 1), ceil(H/P) unclamped when the terminal size query *)
(* fails, and 10 when H is unknown.                                        *)
(***************************************************************************)
\* imgcat() took the legacy path with a positive divisor and went on to the
\* encoder.
LegacyResolved ==
  /\ call.op = "imgcat"
  /\ call.height = V05
  /\ call.pixels_per_line > 0
  /\ ret.res.exc = "none"

\* q is the least integer with q * P >= H.
IsCeil(q, H, P) == q * P >= H /\ (q - 1) * P < H

\* r is ceil(H/P) clamped to [1, rows - 9].
IsClampedCeil(r, H, P, rows) ==
  \/ r = 1 /\ (rows - 9 < 1 \/ H <= P)
  \/ r = rows - 9 /\ rows - 9 >= 1 /\ H > (rows - 9) * P
  \/ IsCeil(r, H, P) /\ r >= 1 /\ r <= rows - 9

\* The statement as claimed: 10 only when H is unknown.
C7_LegacyHeightOfEveryH ==
  LegacyResolved =>
    LET H == ret.res.shape.h
        P == call.pixels_per_line
        r == ret.res.height
    IN /\ r.t = "int"
       /\ IF H.t = "None" THEN r.n = 10
          ELSE IF ret.res.tty_rows.t = "int"
            THEN IsClampedCeil(r.n, H.n, P, ret.res.tty_rows.n)
          ELSE IsCeil(r.n, H.n, P) \/ r.n = 1

(***************************************************************************)
(* C7, amended.  As C7 for a sniffed height H # 0; the height passed to    *)
(* the encoder is 10 when H is unknown or 0.                               *)
(***************************************************************************)
C7_LegacyHeight ==
  LegacyResolved =>
    LET H == ret.res.shape.h
        P == call.pixels_per_line
        r == ret.res.height
    IN /\ r.t = "int"
       /\ IF H.t = "None" \/ H.n = 0 THEN r.n = 10
          ELSE IF ret.res.tty_rows.t = "int"
            THEN IsClampedCeil(r.n, H.n, P, ret.res.tty_rows.n)
          ELSE IsCeil(r.n, H.n, P)

\* A height of 240 pixels at 7 pixels a row, 35 rows, has been clamped to
\* the rows of the terminal less 9.
C7_Witness ==
  /\ LegacyResolved
  /\ ret.res.shape.h = PyInt(240)
  /\ call.pixels_per_line = 7
  /\ ret.res.tty_rows.t = "int"
  /\ ret.res.tty_rows.n > 9
  /\ ret.res.height = PyInt(ret.res.tty_rows.n - 9)

(***************************************************************************)
(* C8.  On the legacy path the resolved height is a number >= 1, for every *)
(* image the sniffer reads and every state of the terminal, a terminal of  *)
(* 9 rows or fewer and one whose size cannot be had included.              *)
(***************************************************************************)
C8_LegacyHeightAtLeastOne ==
  LegacyResolved => ret.res.height.t = "int" /\ ret.res.height.n >= 1

(***************************************************************************)
(* C9.  For a buffer with the GIF magic, or the PNG signature and IHDR at  *)
(* offset 12, and a whole header, get_image_shape returns the width and    *)
(* height of the header: for GIF the two little-endian 16-bit values at    *)
(* bytes 6..10, anywhere in 0..65535, for PNG the two big-endian 32-bit    *)
(* values at bytes 16..24.                                                 *)
(***************************************************************************)
WholeGifHeader(buf) == Len(buf) >= 10 /\ SubSeq(buf, 1, 6) \in {GIF87a, GIF89a}
WholePngHeader(buf) ==
  /\ Len(buf) >= 24
  /\ SubSeq(buf, 1, 8) = PNG_SIGNATURE
  /\ SubSeq(buf, 13, 16) = IHDR

C9_ShapeIsHeader ==
  call.op = "get_image_shape" =>
    LET buf == call.data.content
    IN /\ WholeGifHeader(buf) =>
            ret.shape = ShapeOf(PyInt(buf[7] + 256 * buf[8]), PyInt(buf[9] + 256 * buf[10]))
       /\ WholePngHeader(buf) =>
            ret.shape = ShapeOf(
              PyInt(buf[17] * 16777216 + buf[18] * 65536 + buf[19] * 256 + buf[20]),
              PyInt(buf[21] * 16777216 + buf[22] * 65536 + buf[23] * 256 + buf[24]))

(***************************************************************************)
(* C10.  A buffer that starts with the GIF or PNG magic and ends before    *)
(* the dimension fields do makes get_image_shape raise 'Invalid GIF file'  *)
(* or 'Invalid PNG file' by the format; it does not return (None, None).   *)
(***************************************************************************)
C10_ShortHeaderRaises ==
  call.op = "get_image_shape" =>
    LET buf == call.data.content
    IN /\ (Len(buf) < 10 /\ Len(buf) >= 6 /\ SubSeq(buf, 1, 6) \in {GIF87a, GIF89a})
            => ret.exc = "ValueError: Invalid GIF file"
       /\ (Len(buf) < 16 /\ StartsWith(buf, PNG_SIGNATURE))
            => ret.exc = "ValueError: Invalid PNG file"

(***************************************************************************)
(* C11.  A width of 'v0.5' makes imgcat() raise 'There is no legacy        *)
(* fallback for width' whatever the other inputs are: any buffer, any      *)
(* height, any pixels_per_line, any state of the terminal.                 *)
(***************************************************************************)
LegacyWidthError == "ValueError: There is no legacy fallback for width"

\* The statement as claimed.
C11_LegacyWidthAlwaysItsError ==
  (call.op = "imgcat" /\ call.width = V05) => ret.exc = LegacyWidthError

(***************************************************************************)
(* C11, amended.  A width of 'v0.5' makes imgcat() raise, with nothing     *)
(* written.  The error is 'There is no legacy fallback for width' when the *)
(* data give a buffer that is not empty, but for a pixels_per_line <= 0    *)
(* on the legacy height path with a sniffed height, where the assertion or *)
(* the division may raise first; data of no supported type and an empty    *)
(* buffer raise their own error.                                           *)
(***************************************************************************)
C11_LegacyWidth ==
  (call.op = "imgcat" /\ call.width = V05) =>
    /\ ret.exc # "none"
    /\ log = << >>
    /\ IF ret.res.buf = << >> THEN ret.exc # LegacyWidthError
       ELSE IF /\ call.height = V05
               /\ call.pixels_per_line <= 0
               /\ Truthy(ret.res.shape.h)
         THEN ret.exc \in {"AssertionError", "ZeroDivisionError", LegacyWidthError}
       ELSE ret.exc = LegacyWidthError

\* Width and height both 'v0.5', an image whose height is sniffed, a
\* terminal: the error is the one of the width.
C11_Witness ==
  /\ call.op = "imgcat"
  /\ call.width = V05
  /\ call.height = V05
  /\ call.pixels_per_line = 24
  /\ ret.res.shape.h = PyInt(240)
  /\ ret.exc = LegacyWidthError
  /\ log = << >>

(***************************************************************************)
(* C12.  A pixels_per_line <= 0 given to imgcat() is rejected while the    *)
(* size is resolved: the call ends in an error before the encoder is       *)
(* reached, whatever the height asked for is and whether or not the height *)
(* of the image is sniffed.                                                *)
(***************************************************************************)
C12_NonPositiveDivisorRejected ==
  (call.op = "imgcat" /\ call.pixels_per_line <= 0) => ret.res.exc # "none"

(***************************************************************************)
(* C13.  parse_size follows the grammar of sizes: a number N alone gives   *)
(* the count of cells N, 'Npx' gives 'Npx', 'N%' gives 'N%', 'auto',       *)
(* 'original' and 'v0.5' give themselves, 'default' gives None; none of    *)
(* these raises.                                                           *)
(***************************************************************************)
\* The digits of a number as it is written: no sign, no leading zero.
IsNumber(d) ==
  /\ Len(d) > 0
  /\ \A i \in 1..Len(d) : d[i] \in 48..57
  /\ Len(d) = 1 \/ d[1] # 48

C13_ParseSizeGrammar ==
  call.op = "parse_size" =>
    LET s == call.data.content
        v == ret.value
    IN /\ PyStr(s) \in {V05, AUTO, ORIGINAL} => ret.exc = "none" /\ v = PyStr(s)
       /\ s = <<100, 101, 102, 97, 117, 108, 116>> => ret.exc = "none" /\ v = PyNone
       /\ IsNumber(s) =>
            /\ ret.exc = "none"
            /\ v = PyStr(s) \/ (v.t = "int" /\ StrInt(v.n) = s)
       /\ (Len(s) > 2 /\ IsNumber(SubSeq(s, 1, Len(s) - 2))
             /\ SubSeq(s, Len(s) - 1, Len(s)) = <<112, 120>>) =>
            ret.exc = "none" /\ v = PyStr(s)
       /\ (Len(s) > 1 /\ IsNumber(SubSeq(s, 1, Len(s) - 1)) /\ s[Len(s)] = 37) =>
            ret.exc = "none" /\ v = PyStr(s)

(***************************************************************************)
(* C14.  A dimension left at Default (None) is left out of the sequence:   *)
(* no height= field when height is None, no width= field when width is     *)
(* None; and no height= or width= field is written with an empty value, a  *)
(* zero or a placeholder.                                                  *)
(***************************************************************************)
\* The fields of the sequence: from ESC ] to the ':' before the payload.
Iterm2Head == SubSeq(Iterm2Sequence, 1, Index(Iterm2Sequence, <<58>>))

\* A value that says nothing: empty, 0, or the text None.
Placeholder(v) == v \in {<< >>, <<48>>, <<78, 111, 110, 101>>}

C14_DefaultOmitted ==
  Iterm2Returned =>
    LET hkey == <<59, 104, 101, 105, 103, 104, 116, 61>>          \* ;height=
        wkey == <<59, 119, 105, 100, 116, 104, 61>>               \* ;width=
    IN /\ EncHeight = PyNone => ~Contains(Iterm2Head, hkey)
       /\ EncWidth = PyNone => ~Contains(Iterm2Head, wkey)
       /\ Contains(Iterm2Head, hkey) => ~Placeholder(FieldValue(Iterm2Head, hkey))
       /\ Contains(Iterm2Head, wkey) => ~Placeholder(FieldValue(Iterm2Head, wkey))

(***************************************************************************)
(* C15.  When imgcat() ends in a fatal input error (an empty buffer, data  *)
(* of no supported type, a width of 'v0.5'), it has written nothing: every *)
(* sink holds after the call the bytes it held before, whatever the other  *)
(* arguments are, inside tmux and outside.                                 *)
(***************************************************************************)
FatalInputErrors ==
  {"ValueError: Empty buffer", "TypeError: Unsupported type", LegacyWidthError}

C15_FatalErrorWritesNothing ==
  [][(call'.op = "imgcat" /\ ret'.exc \in FatalInputErrors) => log' = log]_vars

\* Inside tmux, imgcat() given an object of no supported type, a BytesIO as
\* fp and a height of 12 has raised TypeError.
C15_Witness ==
  /\ is_tmux
  /\ call.op = "imgcat"
  /\ call.data.kind = "dict"
  /\ call.fp = "bytesio"
  /\ call.height = PyInt(12)
  /\ ret.exc = "TypeError: Unsupported type"
  /\ log = << >>

(***************************************************************************)
(* C16.  Every byte an encoder call writes (cursor control, passthrough    *)
(* markers, control data, the chunks of the payload) goes to the sink the  *)
(* call was given as fp, in the order of the writes, and to no other       *)
(* stream: for the iTerm2 encoder and for the Kitty encoder, also when fp  *)
(* is not the standard output.                                             *)
(***************************************************************************)
C16_AllBytesOnFp ==
  (Iterm2Returned \/ KittyReturned) =>
    /\ \A i \in 1..Len(log) : log[i].op = "write" => log[i].sink = call.fp
    /\ FpBytes = Written

(***************************************************************************)
(* C17.  In an encoder call inside tmux that returns, the write that hides *)
(* the cursor (CSI ?25l) is followed by a write that shows it (CSI ?25h)   *)
(* on the same sink, and every write is followed by a flush of the sink it *)
(* went to: at the return the cursor is shown and nothing written is left  *)
(* unflushed.                                                              *)
(***************************************************************************)
\* The writes among the events of the call that hold the bytes pat.
WritesOf(pat) ==
  {i \in 1..Len(log) : log[i].op = "write" /\ Contains(log[i].data, pat)}

C17_CursorShownAndFlushed ==
  (is_tmux /\ (Iterm2Returned \/ KittyReturned)) =>
    LET hides == WritesOf(<<27, 91, 63, 50, 53, 108>>)
        shows == WritesOf(<<27, 91, 63, 50, 53, 104>>)
    IN /\ hides # {}
       /\ \A i \in hides : \E j \in shows : j > i /\ log[j].sink = log[i].sink
       /\ \A j \in shows : \A i \in hides : log[i].sink = log[j].sink => i < j
       /\ \A i \in 1..Len(log) :
            log[i].op = "write" =>
              \E j \in (i + 1)..Len(log) :
                log[j].op = "flush" /\ log[j].sink = log[i].sink

\* imgcat() inside tmux, with a BytesIO as fp, has returned: the cursor was
\* hidden and the last thing done to the BytesIO is a flush.
C17_Witness ==
  /\ is_tmux
  /\ call.op = "imgcat"
  /\ call.fp = "bytesio"
  /\ ret.exc = "none"
  /\ WritesOf(<<27, 91, 63, 50, 53, 108>>) # {}
  /\ log[Len(log)] = [sink |-> "bytesio", op |-> "flush", data |-> << >>]

====
